---- MODULE Spec2Model ----
(***************************************************************************)
(* Pass-through gateway of the proxy                                       *)
(* (litellm/proxy/pass_through_endpoints/pass_through_endpoints.py).       *)
(*                                                                         *)
(* The state machines of this module:                                     *)
(*   Spec       one inbound request handled by pass_through_request, one   *)
(*              step per suspension point of the coroutine;                *)
(*   SpecReg    the endpoint registry: the management operations get /     *)
(*              create / update / delete over the configuration store;     *)
(*   SpecRace   two callers of the management operations, each suspended   *)
(*              between its read and its write of the store;               *)
(*   SpecRoutes the registry together with the route table that            *)
(*              initialize_pass_through_endpoints installs;                *)
(*   SpecHdr    get_response_headers on both response paths;               *)
(*   SpecUrl    construct_target_url_with_subpath behind both routes;      *)
(*   SpecEnv    set_env_variables_in_header on a configured header map;    *)
(*   SpecKwargs _init_kwargs_for_pass_through_endpoint on a parsed body;   *)
(*   SpecAdapters  litellm.adapters while definitions are registered.      *)
(***************************************************************************)
EXTENDS Integers, Sequences, FiniteSets, TLC

VARIABLES
    \* ---- forwarding engine: one call of pass_through_request ----
    req,            \* the inbound request and the caller's arguments
    pc,             \* position of the coroutine
    parsed,         \* _parsed_body (the set of keys of the body)
    kwargsSet,      \* kwargs is not None
    calls,          \* the upstream HTTP calls issued so far, in order
    resp,           \* <<>> or <<the upstream response>>
    exc,            \* <<>> or <<the exception caught at line 817>>
    preCallRaised,  \* the pre_call hook raised for this request
    hookCalls,      \* invocations of post_call_failure_hook
    successTasks,   \* success handler tasks created (asyncio.create_task)
    successRan,     \* success handler tasks that have run
    successFailed,  \* success handler tasks that ended with an exception
    outcome,        \* <<>> or <<what leaves pass_through_request>>
    chunks,         \* chunks of the upstream body relayed to the client
    \* ---- endpoint registry ----
    store,          \* general_settings["pass_through_endpoints"]: <<>> (absent) or <<list>>
    uuids,          \* uuid4 values generated so far
    last,           \* the management operation whose response is being returned:
                    \* arguments, result and the store before it (op "none": no operation)
    \* ---- concurrent management operations ----
    tasks,          \* per caller: the operation in progress between its read and its write
    writes,         \* the callers whose write reached the store, in order
    \* ---- route table ----
    routes,         \* app.router.routes: the pass-through routes installed, in order
    openai_routes,  \* LiteLLMRoutes.openai_routes.value: paths appended by initialization
    premium_user,   \* the license flag of the process
    init_last,      \* the last call of initialize_pass_through_endpoints
    \* ---- pure helpers ----
    fn_in,          \* <<>> or <<the arguments of the helper being evaluated>>
    fn_out,         \* <<>> or <<its result>>
    \* ---- adapters ----
    adapters,       \* litellm.adapters: the process-wide list of registered adapters
    handlers        \* the endpoint functions created so far, with what each has bound

fwdVars == <<req, pc, parsed, kwargsSet, calls, resp, exc, preCallRaised,
             hookCalls, successTasks, successRan, successFailed, outcome, chunks>>
regVars == <<store, uuids, last>>
raceVars == <<tasks, writes>>
routeVars == <<routes, openai_routes, premium_user, init_last>>
fnVars == <<fn_in, fn_out>>
adapterVars == <<adapters, handlers>>
vars == <<req, pc, parsed, kwargsSet, calls, resp, exc, preCallRaised,
          hookCalls, successTasks, successRan, successFailed, outcome, chunks,
          store, uuids, last, tasks, writes,
          routes, openai_routes, premium_user, init_last, fn_in, fn_out,
          adapters, handlers>>

(***************************************************************************)
(* Bounds                                                                  *)
(***************************************************************************)
MaxChunks == 2
MaxLen == 3
MaxUuid == 2

(***************************************************************************)
(* Python values                                                           *)
(***************************************************************************)
\* None, for string-valued fields
None == "None"

\* getattr(e, name, default): an attribute is a set holding at most one value
GetAttr(attr, default) == IF attr = {} THEN default ELSE CHOOSE x \in attr : TRUE

Methods == {"GET", "POST", "PUT", "DELETE", "PATCH"}

\* keys that can occur in a request body; "metadata" is one of all_litellm_params
BodyKeys == {"prompt", "metadata"}
all_litellm_params == {"metadata", "litellm_metadata"}

\* upstream responses: status code, content-type is text/event-stream, body
Statuses == {200, 204, 302, 404, 500}
UpstreamBodies == {"body-a", "body-b"}
Responses == [status_code : Statuses, sse : BOOLEAN, text : UpstreamBodies]

\* exceptions: class, optional attributes, str(e) / detail
MkExc(cls, status, message, type, param, text) ==
    [cls |-> cls, status_code |-> status, message |-> message,
     type |-> type, param |-> param, text |-> text]

\* fastapi.HTTPException(status_code=..., detail=...)
HTTPException(status, detail) == MkExc("HTTPException", {status}, {}, {}, {}, detail)

\* an exception without attributes (httpx.ConnectError, ValueError, ...)
PlainError(text) == MkExc("Exception", {}, {}, {}, {}, text)

\* an exception carrying status_code, message, type and param
RichError == MkExc("Exception", {429}, {"rate limited"}, {"throttling_error"},
                   {"rpm"}, "RateLimitError")

\* what a hook of proxy_logging_obj can raise
HookErrors == {HTTPException(403, "rejected"), RichError, PlainError("hook failed")}

(***************************************************************************)
(* Helpers of pass_through_request                                         *)
(***************************************************************************)
\* httpx.Response.raise_for_status as it is used at lines 701, 746, 770:
\* raises HTTPStatusError unless the status is 2xx
raise_for_status(r) == r.status_code < 200 \/ r.status_code > 299

is_streaming_response(r) == r.sse

\* _init_kwargs_for_pass_through_endpoint pops every litellm param from the body
init_kwargs_body(body) == body \ all_litellm_params

\* one upstream call: method, whether json= is passed, the json body, how it was sent
MkCall(method, json, body, via) ==
    [method |-> method, json |-> json, body |-> body, via |-> via]

StreamSendRetry(cs, body) ==
    cs \o <<MkCall("POST", TRUE, body, "stream"), MkCall("POST", TRUE, body, "stream")>>

\* lines 689-698: build_request("POST", url, json=_parsed_body, ...) and send
StreamSend(cs, body) ==
    Append(cs, MkCall("POST", TRUE, body, "stream"))

non_streaming_http_request_handler_json_on_get(cs, method, multipart, body) ==
    IF method = "GET"
    THEN Append(cs, MkCall(method, TRUE, body, "get"))
    ELSE IF multipart
    THEN Append(cs, MkCall(method, FALSE, {}, "multipart"))
    ELSE Append(cs, MkCall(method, TRUE, body, "generic"))

\* lines 351-388 (and make_multipart_http_request, 404-434)
non_streaming_http_request_handler(cs, method, multipart, body) ==
    IF method = "GET"
    THEN Append(cs, MkCall(method, FALSE, {}, "get"))
    ELSE IF multipart
    THEN Append(cs, MkCall(method, FALSE, {}, "multipart"))
    ELSE Append(cs, MkCall(method, TRUE, body, "generic"))

\* lines 851-867: the ProxyException built from the caught exception
ProxyExceptionOf(e) ==
    IF e.cls = "HTTPException"
    THEN [kind |-> "ProxyException",
          message |-> GetAttr(e.message, e.text),
          type |-> GetAttr(e.type, "None"),
          param |-> GetAttr(e.param, "None"),
          code |-> GetAttr(e.status_code, 400)]
    ELSE [kind |-> "ProxyException",
          message |-> GetAttr(e.message, e.text),
          type |-> GetAttr(e.type, "None"),
          param |-> GetAttr(e.param, "None"),
          code |-> GetAttr(e.status_code, 500)]

\* an exception that leaves the handler as it is (not wrapped)
Escaped(e) ==
    [kind |-> "Raised", message |-> e.text, type |-> e.cls,
     param |-> "None", code |-> GetAttr(e.status_code, 0)]

\* Response(content=..., status_code=...) / StreamingResponse(..., status_code=...)
MkResponse(kind, r) ==
    [kind |-> kind, message |-> r.text, type |-> "None", param |-> "None",
     code |-> r.status_code]

(***************************************************************************)
(* pass_through_request, lines 536-867                                     *)
(***************************************************************************)
Requests ==
    [method : Methods, stream : BOOLEAN, multipart : BOOLEAN,
     target_ok : BOOLEAN, custom_body : SUBSET BodyKeys, raw_body : SUBSET BodyKeys]

InitFwd ==
    /\ req \in Requests
    /\ pc = "start"
    /\ parsed = {}
    /\ kwargsSet = FALSE
    /\ calls = <<>>
    /\ resp = <<>>
    /\ exc = <<>>
    /\ preCallRaised = FALSE
    /\ hookCalls = 0
    /\ successTasks = 0
    /\ successRan = 0
    /\ successFailed = 0
    /\ outcome = <<>>
    /\ chunks = 0

\* control transfer to the except clause at line 817
Raise(e) ==
    /\ exc' = <<e>>
    /\ pc' = "failure"

\* lines 578-600: httpx.URL(target), forward headers, merge query parameters
BuildUrl ==
    /\ pc = "start"
    /\ IF req.target_ok
       THEN pc' = "read_body" /\ exc' = exc
       ELSE Raise(PlainError("invalid url"))
    /\ UNCHANGED <<req, parsed, kwargsSet, calls, resp, preCallRaised, hookCalls,
                   successTasks, successRan, successFailed, outcome, chunks>>

\* lines 602-605: custom_body if truthy, else await _read_request_body(request)
ReadBody ==
    /\ pc = "read_body"
    /\ IF req.custom_body # {}
       THEN parsed' = req.custom_body /\ pc' = "pre_call" /\ exc' = exc
       ELSE \/ parsed' = req.raw_body /\ pc' = "pre_call" /\ exc' = exc
            \/ parsed' = parsed /\ Raise(PlainError("body read failed"))
    /\ UNCHANGED <<req, kwargsSet, calls, resp, preCallRaised, hookCalls,
                   successTasks, successRan, successFailed, outcome, chunks>>

PreCallRejectedIgnored(e) ==
    /\ preCallRaised' = TRUE
    /\ pc' = "dispatch"
    /\ UNCHANGED <<parsed, kwargsSet, exc>>

\* the pre_call hook raises at line 613: the except clause at 817 is next
PreCallRejected(e) ==
    /\ preCallRaised' = TRUE
    /\ Raise(e)
    /\ UNCHANGED <<parsed, kwargsSet>>

\* lines 612-688: await pre_call_hook, obtain the client, build logging object and
\* kwargs (which pops the litellm params from the body)
PreCallHook ==
    /\ pc = "pre_call"
    /\ \/ \E data \in {parsed, parsed \cup {"prompt"}} :
            /\ parsed' = init_kwargs_body(data)
            /\ kwargsSet' = TRUE
            /\ pc' = "dispatch"
            /\ UNCHANGED <<exc, preCallRaised>>
       \/ \E e \in HookErrors : PreCallRejected(e)
    /\ UNCHANGED <<req, calls, resp, hookCalls, successTasks, successRan, successFailed,
                   outcome, chunks>>

\* lines 689-698 (stream) and 732-741 (non_streaming_http_request_handler):
\* the upstream call; it returns a response or raises a transport error
Dispatch ==
    /\ pc = "dispatch"
    /\ \/ /\ calls' = IF req.stream
                      THEN StreamSend(calls, parsed)
                      ELSE non_streaming_http_request_handler(
                               calls, req.method, req.multipart, parsed)
          /\ \/ \E r \in Responses : resp' = <<r>> /\ pc' = "validate" /\ exc' = exc
             \/ resp' = resp /\ Raise(PlainError("connection failed"))
       \/ \* await request.form() raises before the multipart request is sent
          /\ ~req.stream /\ req.method # "GET" /\ req.multipart
          /\ calls' = calls /\ resp' = resp
          /\ Raise(PlainError("form parse failed"))
    /\ UNCHANGED <<req, parsed, kwargsSet, preCallRaised, hookCalls, successTasks,
                   successRan, successFailed, outcome, chunks>>

\* lines 700-722: the caller asked for a stream
ValidateStream ==
    /\ pc = "validate" /\ req.stream
    /\ LET r == resp[1] IN
       IF raise_for_status(r)
       THEN /\ \/ Raise(HTTPException(r.status_code, r.text))
               \/ \* await e.response.aread() fails: the body was not read yet
                  Raise(PlainError("read failed"))
            /\ outcome' = outcome
       ELSE /\ outcome' = <<MkResponse("StreamingResponse", r)>>
            /\ pc' = "done" /\ exc' = exc
    /\ UNCHANGED <<req, parsed, kwargsSet, calls, resp, preCallRaised, hookCalls,
                   successTasks, successRan, successFailed, chunks>>

\* lines 744-767: the upstream answered with text/event-stream
ValidateInferredStream ==
    /\ pc = "validate" /\ ~req.stream /\ is_streaming_response(resp[1])
    /\ LET r == resp[1] IN
       IF raise_for_status(r)
       THEN Raise(HTTPException(r.status_code, r.text)) /\ outcome' = outcome
       ELSE /\ outcome' = <<MkResponse("StreamingResponse", r)>>
            /\ pc' = "done" /\ exc' = exc
    /\ UNCHANGED <<req, parsed, kwargsSet, calls, resp, preCallRaised, hookCalls,
                   successTasks, successRan, successFailed, chunks>>

\* lines 769-816: buffered response
ValidateBuffered ==
    /\ pc = "validate" /\ ~req.stream /\ ~is_streaming_response(resp[1])
    /\ LET r == resp[1] IN
       IF raise_for_status(r) \/ r.status_code >= 300
       THEN /\ Raise(HTTPException(r.status_code, r.text))
            /\ UNCHANGED <<outcome, successTasks>>
       ELSE /\ successTasks' = successTasks + 1
            /\ \/ outcome' = <<MkResponse("Response", r)>> /\ pc' = "done" /\ exc' = exc
               \/ \* building the custom headers or the Response raises (800-816)
                  outcome' = outcome /\ Raise(PlainError("response build failed"))
    /\ UNCHANGED <<req, parsed, kwargsSet, calls, resp, preCallRaised, hookCalls,
                   successRan, successFailed, chunks>>

\* lines 817-867: report to post_call_failure_hook, then raise ProxyException
FailureHook ==
    /\ pc = "failure"
    /\ hookCalls' = hookCalls + 1
    /\ \/ outcome' = <<ProxyExceptionOf(exc[1])>>
       \/ \E h \in HookErrors : outcome' = <<Escaped(h)>>
    /\ pc' = "done"
    /\ UNCHANGED <<req, parsed, kwargsSet, calls, resp, exc, preCallRaised,
                   successTasks, successRan, successFailed, chunks>>

\* the StreamingResponse iterates PassThroughStreamingHandler.chunk_processor
RelayChunk ==
    /\ pc = "done"
    /\ outcome # <<>> /\ outcome[1].kind = "StreamingResponse"
    /\ chunks < MaxChunks
    /\ chunks' = chunks + 1
    /\ UNCHANGED <<req, pc, parsed, kwargsSet, calls, resp, exc, preCallRaised,
                   hookCalls, successTasks, successRan, successFailed, outcome>>

\* the failure of the task reaches the handler as if the handler had awaited it
SuccessHandlerRunAwaited ==
    /\ successRan < successTasks
    /\ successRan' = successRan + 1
    /\ \/ successFailed' = successFailed /\ UNCHANGED <<pc, hookCalls>>
       \/ /\ successFailed' = successFailed + 1
          /\ pc' = "done" /\ hookCalls' = hookCalls + 1
    /\ UNCHANGED <<req, parsed, kwargsSet, calls, resp, exc, preCallRaised,
                   successTasks, outcome, chunks>>

\* the task created at line 785 runs pass_through_async_success_handler; an
\* exception of the task stays in the task
SuccessHandlerRun ==
    /\ successRan < successTasks
    /\ successRan' = successRan + 1
    /\ \E raised \in BOOLEAN :
           successFailed' = IF raised THEN successFailed + 1 ELSE successFailed
    /\ UNCHANGED <<req, pc, parsed, kwargsSet, calls, resp, exc, preCallRaised,
                   hookCalls, successTasks, outcome, chunks>>

NextFwd ==
    \/ BuildUrl
    \/ ReadBody
    \/ PreCallHook
    \/ Dispatch
    \/ ValidateStream
    \/ ValidateInferredStream
    \/ ValidateBuffered
    \/ FailureHook
    \/ RelayChunk
    \/ SuccessHandlerRun


(***************************************************************************)
(* Endpoint registry, lines 1116-1435                                      *)
(***************************************************************************)
CallerIds == {"ep1"}
Paths == {"/a", "/b"}
Targets == {"https://t1"}

Uuid_constant(n) == "uuid-1"

\* str(uuid.uuid4()): the n-th generated id
Uuid(n) == "uuid-" \o ToString(n)

\* PassThroughGenericEndpoint as the management API receives it
EndpointData == [id : CallerIds \cup {None}, path : Paths, target : Targets \cup {None}]

NoData == [id |-> None, path |-> None, target |-> None]

\* data.model_dump(exclude_none=True): the fields that are kept
exclude_none(d) == {f \in DOMAIN d : d[f] # None}

\* Python dict.update
dict_update(base, keys, d) == [f \in DOMAIN base |-> IF f \in keys THEN d[f] ELSE base[f]]

find_endpoint_by_id_or_first(endpoints_data, endpoint_id) ==
    LET hits == {i \in DOMAIN endpoints_data : endpoints_data[i].id = endpoint_id}
    IN IF hits = {}
       THEN IF endpoints_data = <<>> THEN <<>> ELSE <<endpoints_data[1]>>
       ELSE <<endpoints_data[CHOOSE i \in hits : \A j \in hits : i <= j]>>

\* lines 1410-1435: the first endpoint whose id equals endpoint_id, as <<>> or <<e>>
find_endpoint_by_id(endpoints_data, endpoint_id) ==
    LET hits == {i \in DOMAIN endpoints_data : endpoints_data[i].id = endpoint_id}
    IN IF hits = {} THEN <<>>
       ELSE <<endpoints_data[CHOOSE i \in hits : \A j \in hits : i <= j]>>

\* lines 1214-1224 and 1373-1383: the first index whose id equals endpoint_id (0: none)
endpoint_index(endpoints_data, endpoint_id) ==
    LET hits == {i \in DOMAIN endpoints_data : endpoints_data[i].id = endpoint_id}
    IN IF hits = {} THEN 0 ELSE CHOOSE i \in hits : \A j \in hits : i <= j

\* get_config_general_settings(field_name="pass_through_endpoints"):
\* <<>> when it raises (no such field, or the read fails), else <<field_value>>
get_config_general_settings(st, readOk) == IF readOk THEN st ELSE <<>>

\* lines 1116-1147
get_pass_through_endpoints_from_db(st, endpoint_id, readOk) ==
    LET response == get_config_general_settings(st, readOk) IN
    IF response = <<>> THEN <<>>
    ELSE IF endpoint_id = None THEN response[1]
    ELSE find_endpoint_by_id(response[1], endpoint_id)

update_replace_all(found, data) == data

\* lines 1234-1245: merge the non-None fields of data over the found endpoint
update_merge(found, data) ==
    LET update_data == exclude_none(data)
        endpoint_dict == dict_update(found, update_data, data)
    IN IF "id" \notin update_data /\ found.id # None
       THEN [endpoint_dict EXCEPT !.id = found.id]
       ELSE endpoint_dict

\* the record kept of a management operation
\* (wrote: update_config_general_settings was called)
Op(op, id, data, status, result, before, wrote) ==
    [op |-> op, id |-> id, data |-> data, status |-> status,
     result |-> result, before |-> before, wrote |-> wrote]

InitReg ==
    /\ store = <<>>
    /\ uuids = 0
    /\ last = Op("none", None, NoData, "ok", <<>>, <<>>, FALSE)

\* no management operation is being answered
Idle == last.op = "none"

\* lines 1155-1167
get_pass_through_endpoints ==
    /\ Idle
    /\ \E endpoint_id \in CallerIds \cup {Uuid(n) : n \in 1..uuids} \cup {None},
       readOk \in BOOLEAN :
        /\ last' = Op("get", endpoint_id, NoData, "ok",
                      get_pass_through_endpoints_from_db(store, endpoint_id, readOk),
                      store, FALSE)
        /\ UNCHANGED <<store, uuids>>

\* lines 1272-1319
create_pass_through_endpoints ==
    /\ Idle
    /\ \E data \in EndpointData, readOk \in BOOLEAN, writeOk \in BOOLEAN :
        LET response == get_config_general_settings(store, readOk)
            data_dict == IF data.id = None
                         THEN [data EXCEPT !.id = Uuid(uuids + 1)]
                         ELSE data
            field_value == IF response = <<>>
                           THEN <<data_dict>>
                           ELSE Append(response[1], data_dict)
        IN /\ data.id = None => uuids < MaxUuid
           /\ Len(field_value) <= MaxLen
           /\ uuids' = IF data.id = None THEN uuids + 1 ELSE uuids
           /\ IF writeOk
              THEN /\ store' = <<field_value>>
                   /\ last' = Op("create", None, data, "ok", <<data_dict>>, store, TRUE)
              ELSE /\ store' = store
                   /\ last' = Op("create", None, data, "500", <<>>, store, TRUE)

\* lines 1174-1265
update_pass_through_endpoints ==
    /\ Idle
    /\ \E endpoint_id \in CallerIds \cup {Uuid(n) : n \in 1..uuids},
       data \in EndpointData, readOk \in BOOLEAN, writeOk \in BOOLEAN :
        LET response == get_config_general_settings(store, readOk) IN
        /\ uuids' = uuids
        /\ IF response = <<>> \/ find_endpoint_by_id(response[1], endpoint_id) = <<>>
           THEN /\ store' = store
                /\ last' = Op("update", endpoint_id, data, "404", <<>>, store, FALSE)
           ELSE LET found == find_endpoint_by_id(response[1], endpoint_id)[1]
                    idx == endpoint_index(response[1], endpoint_id)
                    endpoint_dict == update_merge(found, data)
                    updated == [response[1] EXCEPT ![idx] = endpoint_dict]
                IN IF writeOk
                   THEN /\ store' = <<updated>>
                        /\ last' = Op("update", endpoint_id, data, "ok",
                                      <<endpoint_dict>>, store, TRUE)
                   ELSE /\ store' = store
                        /\ last' = Op("update", endpoint_id, data, "500", <<>>, store, TRUE)

\* list.pop(index)
list_pop(l, idx) == [i \in 1..(Len(l) - 1) |-> IF i < idx THEN l[i] ELSE l[i + 1]]

\* lines 1327-1407
delete_pass_through_endpoints ==
    /\ Idle
    /\ \E endpoint_id \in CallerIds \cup {Uuid(n) : n \in 1..uuids},
       readOk \in BOOLEAN, writeOk \in BOOLEAN :
        LET response == get_config_general_settings(store, readOk) IN
        /\ uuids' = uuids
        /\ IF response = <<>> \/ find_endpoint_by_id(response[1], endpoint_id) = <<>>
           THEN /\ store' = store
                /\ last' = Op("delete", endpoint_id, NoData, "400", <<>>, store, FALSE)
           ELSE LET found == find_endpoint_by_id(response[1], endpoint_id)[1]
                    idx == endpoint_index(response[1], endpoint_id)
                IN IF writeOk
                   THEN /\ store' = <<list_pop(response[1], idx)>>
                        /\ last' = Op("delete", endpoint_id, NoData, "ok", <<found>>, store, TRUE)
                   ELSE /\ store' = store
                        /\ last' = Op("delete", endpoint_id, NoData, "500", <<>>, store, TRUE)

\* the response of the operation reaches the management client
Respond ==
    /\ ~Idle
    /\ last' = Op("none", None, NoData, "ok", <<>>, <<>>, FALSE)
    /\ UNCHANGED <<store, uuids>>

NextReg ==
    \/ Respond
    \/ get_pass_through_endpoints
    \/ create_pass_through_endpoints
    \/ update_pass_through_endpoints
    \/ delete_pass_through_endpoints


(***************************************************************************)
(* Concurrent management operations: each handler awaits the read of the   *)
(* store (lines 1189, 1289, 1344) and later awaits the write (1259, 1313,  *)
(* 1403); other handlers run in between.                                   *)
(***************************************************************************)
Tasks == {"t1", "t2"}

TaskRec(tpc, op, id, data, seen, value, readAt) ==
    [pc |-> tpc, op |-> op, id |-> id, data |-> data, seen |-> seen,
     value |-> value, readAt |-> readAt]

TaskIdle == TaskRec("idle", "none", None, NoData, <<>>, <<>>, 0)

write_field_value_if_unchanged(st, seen, field_value) ==
    IF st = seen THEN <<field_value>> ELSE st

\* lines 1307-1315, 1253-1261, 1397-1405: the list computed from the handler's own
\* read is written as the whole field value
write_field_value(st, seen, field_value) == <<field_value>>

\* lines 1288-1305: create up to its write
RaceCreateRead(t) ==
    \E data \in EndpointData :
        LET response == get_config_general_settings(store, TRUE)
            data_dict == IF data.id = None
                         THEN [data EXCEPT !.id = Uuid(uuids + 1)]
                         ELSE data
            field_value == IF response = <<>>
                           THEN <<data_dict>>
                           ELSE Append(response[1], data_dict)
        IN /\ data.id = None => uuids < MaxUuid
           /\ Len(field_value) <= MaxLen
           /\ uuids' = IF data.id = None THEN uuids + 1 ELSE uuids
           /\ tasks' = [tasks EXCEPT ![t] =
                  TaskRec("read", "create", data_dict.id, data, response,
                          field_value, Len(writes))]

\* lines 1188-1251: update up to its write
RaceUpdateRead(t) ==
    \E endpoint_id \in CallerIds \cup {Uuid(n) : n \in 1..uuids}, data \in EndpointData :
        LET response == get_config_general_settings(store, TRUE) IN
        /\ uuids' = uuids
        /\ IF response = <<>> \/ find_endpoint_by_id(response[1], endpoint_id) = <<>>
           THEN tasks' = [tasks EXCEPT ![t] =
                    TaskRec("failed", "update", endpoint_id, data, response, <<>>,
                            Len(writes))]
           ELSE LET found == find_endpoint_by_id(response[1], endpoint_id)[1]
                    idx == endpoint_index(response[1], endpoint_id)
                    updated == [response[1] EXCEPT ![idx] = update_merge(found, data)]
                IN tasks' = [tasks EXCEPT ![t] =
                       TaskRec("read", "update", endpoint_id, data, response, updated,
                               Len(writes))]

\* lines 1343-1395: delete up to its write
RaceDeleteRead(t) ==
    \E endpoint_id \in CallerIds \cup {Uuid(n) : n \in 1..uuids} :
        LET response == get_config_general_settings(store, TRUE) IN
        /\ uuids' = uuids
        /\ IF response = <<>> \/ find_endpoint_by_id(response[1], endpoint_id) = <<>>
           THEN tasks' = [tasks EXCEPT ![t] =
                    TaskRec("failed", "delete", endpoint_id, NoData, response, <<>>,
                            Len(writes))]
           ELSE tasks' = [tasks EXCEPT ![t] =
                    TaskRec("read", "delete", endpoint_id, NoData, response,
                            list_pop(response[1], endpoint_index(response[1], endpoint_id)),
                            Len(writes))]

\* a caller's handler runs from its start to the await of the write
RaceRead ==
    \E t \in Tasks :
        /\ tasks[t].pc = "idle"
        /\ RaceCreateRead(t) \/ RaceUpdateRead(t) \/ RaceDeleteRead(t)
        /\ UNCHANGED <<store, writes>>

\* await update_config_general_settings(...) of a suspended handler
RaceWrite ==
    \E t \in Tasks :
        /\ tasks[t].pc = "read"
        /\ store' = write_field_value(store, tasks[t].seen, tasks[t].value)
        /\ writes' = Append(writes, t)
        /\ tasks' = [tasks EXCEPT ![t].pc = "written"]
        /\ UNCHANGED uuids

\* the stores the callers may find: no field, an empty list, one definition
RaceStores ==
    {<<>>, <<<<>>>>} \cup
    {<<<<[id |-> "ep1", path |-> p, target |-> g]>>>> :
         p \in Paths, g \in Targets \cup {None}}

RaceIdle ==
    /\ tasks = [t \in Tasks |-> TaskIdle]
    /\ writes = <<>>

NextRace ==
    \/ RaceRead
    \/ RaceWrite

(***************************************************************************)
(* The route table: initialize_pass_through_endpoints and the helpers that *)
(* add routes to the application.                                          *)
(***************************************************************************)
MaxRoutes == 2
MaxInit == 3

\* an entry of the configured list, as the loop reads it with endpoint.get(...)
ConfigEndpoints ==
    [path : Paths \cup {None}, target : Targets \cup {None},
     auth : BOOLEAN, include_subpath : BOOLEAN]

ConfigLists ==
    UNION {[1..n -> ConfigEndpoints] : n \in 0..MaxInit}

\* a stored definition as the loop reads it: auth and include_subpath are not set
model_dump(d) ==
    [path |-> d.path, target |-> d.target, auth |-> FALSE, include_subpath |-> FALSE]

\* lines 964-994: app.add_api_route(path=path, ...) with the default include_subpath
add_exact_path_route(rs, e) ==
    Append(rs, [path |-> e.path, target |-> e.target, include_subpath |-> FALSE,
                dependencies |-> e.auth])

\* lines 997-1029: app.add_api_route(path=f"{path}/{{subpath:path}}", ...)
add_subpath_route(rs, e) ==
    Append(rs, [path |-> e.path \o "/{subpath:path}", target |-> e.target,
                include_subpath |-> TRUE, dependencies |-> e.auth])

NoError == "none"

\* lines 1050-1113: the loop over the list from definition i on; acc is the
\* application state so far
RECURSIVE initialize_loop(_, _, _, _)
initialize_loop(l, i, acc, premium) ==
    IF i > Len(l) THEN acc
    ELSE LET e == l[i] IN
         IF e.path = None
         THEN [acc EXCEPT !.error = "Path is required for pass-through endpoint"]
         ELSE IF e.auth /\ ~premium
         THEN [acc EXCEPT !.error = "Error Setting Authentication on Pass Through Endpoint"]
         ELSE LET a1 == IF e.auth
                        THEN [acc EXCEPT !.openai_routes = Append(@, e.path)]
                        ELSE acc
              IN IF e.target = None
                 THEN initialize_loop(l, i + 1, a1, premium)
                 ELSE LET a2 == [a1 EXCEPT !.routes = add_exact_path_route(@, e)]
                          a3 == IF e.include_subpath
                                THEN [a2 EXCEPT !.routes = add_subpath_route(@, e)]
                                ELSE a2
                      IN initialize_loop(l, i + 1, a3, premium)

\* one call of initialize_pass_through_endpoints(l); the loop has no suspension
\* point (set_env_variables_in_header never suspends), so it is one step
Initialize(l) ==
    LET acc == initialize_loop(l, 1,
                   [routes |-> routes, openai_routes |-> openai_routes, error |-> NoError],
                   premium_user)
    IN /\ routes' = acc.routes
       /\ openai_routes' = acc.openai_routes
       /\ init_last' = <<[list |-> l, error |-> acc.error,
                          routes |-> routes, openai_routes |-> openai_routes]>>
       /\ UNCHANGED premium_user

\* startup: the list of the configuration file, initialized once
initialize_pass_through_endpoints ==
    /\ init_last = <<>>
    /\ \E l \in ConfigLists : Initialize(l)

\* lines 1438-1445: the list read from the store
initialize_pass_through_endpoints_in_db ==
    \E readOk \in BOOLEAN :
        LET stored == get_pass_through_endpoints_from_db(store, None, readOk)
        IN /\ Idle /\ init_last = <<>>
           /\ Initialize([i \in 1..Len(stored) |-> model_dump(stored[i])])
           /\ Len(routes') <= MaxRoutes

\* the periodic call returns
InitializeReturn ==
    /\ init_last # <<>>
    /\ init_last' = <<>>
    /\ UNCHANGED <<routes, openai_routes, premium_user>>

\* the first installed route whose path is p answers a request for p
Served(p) == \E k \in DOMAIN routes : routes[k].path = p

(***************************************************************************)
(* Response headers: get_response_headers on the streaming and on the      *)
(* buffered response path.                                                 *)
(***************************************************************************)
\* header names an upstream can send, in the letter case it sends them
HeaderNames ==
    {"Transfer-Encoding", "transfer-encoding", "Content-Encoding", "CONTENT-ENCODING",
     "content-type", "x-litellm-call-id", "x-litellm-key-spend"}

\* str.lower() on the header names of the model
lower(key) ==
    CASE key = "Transfer-Encoding" -> "transfer-encoding"
      [] key = "Content-Encoding" -> "content-encoding"
      [] key = "CONTENT-ENCODING" -> "content-encoding"
      [] OTHER -> key

excluded_headers == {"transfer-encoding", "content-encoding"}

\* the dicts with keys among names and values v
Dicts(names, v) == {[k \in d |-> v] : d \in SUBSET names}

\* dict.update: the entries of b replace those of a
update(a, b) ==
    [k \in DOMAIN a \cup DOMAIN b |-> IF k \in DOMAIN b THEN b[k] ELSE a[k]]

\* line 569: litellm_call_id = str(uuid.uuid4())
LitellmCallId == "call-id-1"

get_response_headers_exact_case(headers, litellm_call_id, custom_headers) ==
    LET kept == {key \in DOMAIN headers : key \notin excluded_headers}
        return_headers == [key \in kept |-> headers[key]]
        with_id == IF litellm_call_id \notin {None, ""}
                   THEN update(return_headers, [k \in {"x-litellm-call-id"} |-> litellm_call_id])
                   ELSE return_headers
    IN IF DOMAIN custom_headers # {} THEN update(with_id, custom_headers) ELSE with_id

\* lines 286-303; an absent custom_headers is the empty dict (both are falsy)
get_response_headers(headers, litellm_call_id, custom_headers) ==
    LET kept == {key \in DOMAIN headers : lower(key) \notin excluded_headers}
        return_headers == [key \in kept |-> headers[key]]
        with_id == IF litellm_call_id \notin {None, ""}
                   THEN update(return_headers, [k \in {"x-litellm-call-id"} |-> litellm_call_id])
                   ELSE return_headers
    IN IF DOMAIN custom_headers # {} THEN update(with_id, custom_headers) ELSE with_id

\* ProxyBaseLLMRequestProcessing.get_custom_headers: the call-id header and the
\* other x-litellm-* headers that have a value
get_custom_headers(call_id, others) ==
    update([k \in {"x-litellm-call-id"} |-> call_id], others)

\* the response paths of pass_through_request and what each passes (717-720,
\* 762-765, 800-816)
relayed_headers(in) ==
    IF in.path = "stream"
    THEN get_response_headers(in.headers, LitellmCallId, <<>>)
    ELSE get_response_headers(in.headers, None,
                              get_custom_headers(LitellmCallId, in.others))

HeaderInputs ==
    [path : {"stream", "buffered"},
     headers : Dicts(HeaderNames, "upstream"),
     others : Dicts({"x-litellm-key-spend"}, "custom")]

\* the response is built from the upstream response
RelayHeaders ==
    /\ fn_in # <<>> /\ fn_out = <<>>
    /\ fn_out' = <<relayed_headers(fn_in[1])>>
    /\ UNCHANGED fn_in

(***************************************************************************)
(* Target URL construction behind the exact and the wildcard route.        *)
(* A string is the sequence of its characters.                             *)
(***************************************************************************)
MaxStr == 3

Chars == {"/", "a"}

Strs == UNION {[1..n -> Chars] : n \in 0..MaxStr}

\* str.endswith("/")
endswith_slash(str) == str # <<>> /\ str[Len(str)] = "/"

\* str.startswith("/")
startswith_slash(str) == str # <<>> /\ str[1] = "/"

construct_target_url_with_subpath_keep_slash(base_target, subpath, include_subpath) ==
    IF ~include_subpath THEN base_target
    ELSE IF subpath = <<>> THEN base_target
    ELSE (IF endswith_slash(base_target) THEN base_target ELSE base_target \o <<"/">>)
         \o subpath

\* lines 507-533
construct_target_url_with_subpath(base_target, subpath, include_subpath) ==
    IF ~include_subpath THEN base_target
    ELSE IF subpath = <<>> THEN base_target
    ELSE LET base1 == IF endswith_slash(base_target)
                      THEN base_target
                      ELSE base_target \o <<"/">>
             subpath1 == IF startswith_slash(subpath)
                         THEN SubSeq(subpath, 2, Len(subpath))
                         ELSE subpath
         IN base1 \o subpath1

\* the include_subpath the closure of each route holds: add_exact_path_route leaves
\* the default of create_pass_through_route (False), add_subpath_route passes True
route_include_subpath(route) == route = "wildcard"

\* lines 921-950: endpoint_func computes full_target from its closure and the
\* subpath of the request (path parameter on the wildcard route, query parameter
\* on the exact route)
full_target(in) ==
    construct_target_url_with_subpath(in.target, in.subpath,
                                      route_include_subpath(in.route))

UrlInputs == [route : {"exact", "wildcard"}, target : Strs, subpath : Strs]

\* a request reaches endpoint_func of a route
EndpointFunc ==
    /\ fn_in # <<>> /\ fn_out = <<>>
    /\ fn_out' = <<full_target(fn_in[1])>>
    /\ UNCHANGED fn_in

(***************************************************************************)
(* Secret references in configured headers: set_env_variables_in_header.   *)
(* A header value is the sequence of its parts; "os.environ/A" and         *)
(* "os.environ/B" are secret references, of which only A resolves.         *)
(***************************************************************************)
ReservedKeys == {"LANGFUSE_PUBLIC_KEY", "LANGFUSE_SECRET_KEY"}

ConfigKeys == ReservedKeys \cup {"Authorization", "x-api-key"}

Markers == {"os.environ/A", "os.environ/B"}

\* the values configured for a reserved key and for any other key
ReservedValues == {<<"pk-lf">>, <<"os.environ/A">>, <<"os.environ/B">>}
PlainValues == {<<"plain">>, <<"os.environ/A">>, <<"bearer ", "os.environ/A">>,
                <<"os.environ/B">>}

\* get_secret_str: <<the secret>>, or <<>> (None) when the name does not resolve
get_secret_str(name) == IF name = <<"os.environ/A">> THEN <<(<<"secret-A">>)>> ELSE <<>>

\* value.startswith("os.environ/")
startswith_marker(value) == value # <<>> /\ value[1] \in Markers

\* value.find("os.environ/"): the first part that is a reference, 0 if there is none
find_marker(value) ==
    IF \E i \in DOMAIN value : value[i] \in Markers
    THEN CHOOSE i \in DOMAIN value :
             value[i] \in Markers /\ \A j \in DOMAIN value : value[j] \in Markers => i <= j
    ELSE 0

\* str(x) inside the f-string: None prints as "None"
fstr(opt) == IF opt = <<>> THEN <<"None">> ELSE opt[1]

\* "Basic " + b64encode(f"{public}:{secret}")
basic_auth(public, secret) == <<"Basic ", [b64 |-> public \o <<":">> \o secret]>>

\* lines 92-118: the value stored for a key that is not reserved
substituted(value) ==
    LET start_index == find_marker(value) IN
    IF start_index = 0 THEN value
    ELSE LET variable_name == SubSeq(value, start_index, Len(value))
             secret_value == get_secret_str(variable_name)
         IN IF secret_value = <<>> THEN value
            ELSE SubSeq(value, 1, start_index - 1) \o secret_value[1]

\* lines 82-91: the Authorization value built when a reserved key is met
langfuse_authorization(custom_headers) ==
    LET public == custom_headers["LANGFUSE_PUBLIC_KEY"]
        secret == custom_headers["LANGFUSE_SECRET_KEY"]
        public1 == IF startswith_marker(public) THEN fstr(get_secret_str(public)) ELSE public
        secret1 == IF startswith_marker(secret) THEN fstr(get_secret_str(secret)) ELSE secret
    IN basic_auth(public1, secret1)

\* lines 79-118: the loop over custom_headers.items() in the order keys, from key i on
RECURSIVE set_env_loop(_, _, _, _)
set_env_loop(custom_headers, keys, i, acc) ==
    IF i > Len(keys) THEN acc
    ELSE LET key == keys[i] IN
         IF key \in ReservedKeys
         THEN IF ReservedKeys \subseteq DOMAIN custom_headers
              THEN set_env_loop(custom_headers, keys, i + 1,
                       [acc EXCEPT !.headers =
                            update(@, [k \in {"Authorization"} |->
                                           langfuse_authorization(custom_headers)])])
              ELSE [acc EXCEPT !.error = "KeyError"]
         ELSE set_env_loop(custom_headers, keys, i + 1,
                  [acc EXCEPT !.headers =
                       update(@, [k \in {key} |-> substituted(custom_headers[key])])])

\* lines 68-118 for a header map that is not None
set_env_variables_in_header(custom_headers, keys) ==
    set_env_loop(custom_headers, keys, 1, [error |-> NoError, headers |-> <<>>])

\* the orders in which a dict with the key set ks can list its keys
Orders(ks) ==
    {o \in [1..Cardinality(ks) -> ks] : \A i, j \in DOMAIN o : o[i] = o[j] => i = j}

\* the configured header maps with their insertion order
EnvInputs ==
    UNION {
        {[custom_headers |-> h, keys |-> o] :
             h \in {f \in [ks -> ReservedValues \cup PlainValues] :
                        \A k \in ks : f[k] \in (IF k \in ReservedKeys
                                                THEN ReservedValues ELSE PlainValues)},
             o \in Orders(ks)} :
        ks \in SUBSET ConfigKeys}

\* initialization resolves the headers of one definition
SetEnvVariables ==
    /\ fn_in # <<>> /\ fn_out = <<>>
    /\ fn_out' = <<set_env_variables_in_header(fn_in[1].custom_headers, fn_in[1].keys)>>
    /\ UNCHANGED fn_in

(***************************************************************************)
(* Control fields of the request body:                                     *)
(* _init_kwargs_for_pass_through_endpoint and the tags header.             *)
(* A dict is a function on its keys; a metadata value is a list of strings.*)
(***************************************************************************)
\* dict(StandardLoggingUserAPIKeyMetadata(...)) and user_api_key (457-471)
IdentityMetadata ==
    [k \in {"user_api_key", "user_api_key_user_id"} |-> <<"from-identity">>]

\* the keys a caller can put into metadata / litellm_metadata
MetadataKeys == {"user_api_key_user_id", "tags", "trace"}

\* the tags header: absent (<<>>) or <<its value>>, the value in parts
TagsHeaders == {<<>>, <<(<<>>)>>, <<(<<"a">>)>>, <<(<<"a", ",", "b">>)>>}

\* the text of a run of parts
RECURSIVE join(_)
join(parts) == IF parts = <<>> THEN "" ELSE Head(parts) \o join(Tail(parts))

\* str.split(",")
RECURSIVE split(_)
split(value) ==
    IF \E i \in DOMAIN value : value[i] = ","
    THEN LET i == CHOOSE i \in DOMAIN value :
                      value[i] = "," /\ \A j \in 1..(i - 1) : value[j] # ","
         IN <<join(SubSeq(value, 1, i - 1))>> \o split(SubSeq(value, i + 1, Len(value)))
    ELSE <<join(value)>>

\* dict.pop(key, None): <<>> for None, else <<the value>>
pop(d, key) == IF key \in DOMAIN d THEN <<d[key]>> ELSE <<>>

\* a dict without the keys ks
without(d, ks) == [k \in DOMAIN d \ ks |-> d[k]]

\* lines 870-879
update_metadata_with_tags_in_header(tags, metadata) ==
    IF tags # <<>> /\ tags[1] # <<>>
    THEN update(metadata, [k \in {"tags"} |-> split(tags[1])])
    ELSE metadata

init_kwargs_for_pass_through_endpoint_metadata_first(parsed_body, tags) ==
    LET litellm_params_in_body ==
            [k \in DOMAIN parsed_body \cap all_litellm_params |-> parsed_body[k]]
        litellm_metadata == pop(litellm_params_in_body, "litellm_metadata")
        metadata == pop(litellm_params_in_body, "metadata")
        m1 == IF metadata # <<>> /\ DOMAIN metadata[1] # {}
              THEN update(IdentityMetadata, metadata[1]) ELSE IdentityMetadata
        m2 == IF litellm_metadata # <<>> /\ DOMAIN litellm_metadata[1] # {}
              THEN update(m1, litellm_metadata[1]) ELSE m1
    IN [body |-> without(parsed_body, all_litellm_params),
        litellm_params |-> without(litellm_params_in_body, {"litellm_metadata", "metadata"}),
        metadata |-> update_metadata_with_tags_in_header(tags, m2)]

\* lines 437-504: body is _parsed_body after the pops (the dict that is sent upstream),
\* litellm_params the popped parameters, metadata kwargs["litellm_params"]["metadata"]
init_kwargs_for_pass_through_endpoint(parsed_body, tags) ==
    LET litellm_params_in_body ==
            [k \in DOMAIN parsed_body \cap all_litellm_params |-> parsed_body[k]]
        litellm_metadata == pop(litellm_params_in_body, "litellm_metadata")
        metadata == pop(litellm_params_in_body, "metadata")
        m1 == IF litellm_metadata # <<>> /\ DOMAIN litellm_metadata[1] # {}
              THEN update(IdentityMetadata, litellm_metadata[1]) ELSE IdentityMetadata
        m2 == IF metadata # <<>> /\ DOMAIN metadata[1] # {}
              THEN update(m1, metadata[1]) ELSE m1
    IN [body |-> without(parsed_body, all_litellm_params),
        litellm_params |-> without(litellm_params_in_body, {"litellm_metadata", "metadata"}),
        metadata |-> update_metadata_with_tags_in_header(tags, m2)]

\* a parsed body: a prompt or not, metadata or not, litellm_metadata or not
ParsedBodies ==
    {update(update(p, m), lm) :
         p \in Dicts({"prompt"}, <<"hi">>),
         m \in {<<>>} \cup {[k \in {"metadata"} |-> d] :
                                d \in Dicts(MetadataKeys, <<"from-metadata">>)},
         lm \in {<<>>} \cup {[k \in {"litellm_metadata"} |-> d] :
                                 d \in Dicts(MetadataKeys, <<"from-litellm_metadata">>)}}

KwargsInputs == [parsed_body : ParsedBodies, tags : TagsHeaders]

\* lines 641-648: the kwargs are built before the upstream call
InitKwargs ==
    /\ fn_in # <<>> /\ fn_out = <<>>
    /\ fn_out' = <<init_kwargs_for_pass_through_endpoint(fn_in[1].parsed_body,
                                                         fn_in[1].tags)>>
    /\ UNCHANGED fn_in

(***************************************************************************)
(* Adapter targets: create_pass_through_route binds an adapter id into the *)
(* endpoint function and sets litellm.adapters.                            *)
(***************************************************************************)
MaxHandlers == 4

\* targets that get_instance_fn resolves to an adapter, and a URL (which it does not)
AdapterTargets == {"adapter.a", "adapter.b"}
RouteTargets == AdapterTargets \cup Targets

\* the adapter ids bound so far
BoundIds(hs) == {hs[k].adapter_id : k \in DOMAIN hs} \ {None}

\* lines 882-952: one call; acc holds litellm.adapters and the endpoint functions
create_pass_through_route(acc, target, include_subpath) ==
    IF target \in AdapterTargets
    THEN LET adapter_id == Uuid(Cardinality(BoundIds(acc.handlers)) + 1)
         IN [adapters |-> <<[id |-> adapter_id, adapter |-> target]>>,
             handlers |-> Append(acc.handlers,
                                 [adapter_id |-> adapter_id, target |-> target,
                                  include_subpath |-> FALSE])]
    ELSE [adapters |-> acc.adapters,
          handlers |-> Append(acc.handlers,
                              [adapter_id |-> None, target |-> target,
                               include_subpath |-> include_subpath])]

\* lines 1083-1109: the exact route of a definition, then its wildcard route when
\* include_subpath is set; each helper calls create_pass_through_route
RegisterDefinition ==
    \E target \in RouteTargets, include_subpath \in BOOLEAN :
        LET a0 == [adapters |-> adapters, handlers |-> handlers]
            a1 == create_pass_through_route(a0, target, FALSE)
            a2 == IF include_subpath
                  THEN create_pass_through_route(a1, target, TRUE)
                  ELSE a1
        IN /\ Len(a2.handlers) <= MaxHandlers
           /\ adapters' = a2.adapters
           /\ handlers' = a2.handlers

AdapterIdle ==
    /\ adapters = <<>>
    /\ handlers = <<>>

(***************************************************************************)
(* Specifications                                                          *)
(***************************************************************************)
RouteIdle ==
    /\ routes = <<>>
    /\ openai_routes = <<>>
    /\ premium_user = FALSE
    /\ init_last = <<>>

FnIdle ==
    /\ fn_in = <<>>
    /\ fn_out = <<>>

Init == InitFwd /\ InitReg /\ RaceIdle /\ AdapterIdle /\ RouteIdle /\ FnIdle

Next == NextFwd /\ UNCHANGED <<regVars, raceVars, adapterVars, routeVars, fnVars>>

Spec == Init /\ [][Next]_vars

\* a request that has not been received
FwdIdle ==
    /\ req = [method |-> "GET", stream |-> FALSE, multipart |-> FALSE,
              target_ok |-> TRUE, custom_body |-> {}, raw_body |-> {}]
    /\ pc = "idle"
    /\ parsed = {}
    /\ kwargsSet = FALSE
    /\ calls = <<>>
    /\ resp = <<>>
    /\ exc = <<>>
    /\ preCallRaised = FALSE
    /\ hookCalls = 0
    /\ successTasks = 0
    /\ successRan = 0
    /\ successFailed = 0
    /\ outcome = <<>>
    /\ chunks = 0

InitRegistry == FwdIdle /\ InitReg /\ RaceIdle /\ AdapterIdle /\ RouteIdle /\ FnIdle

NextRegistry == NextReg /\ UNCHANGED <<fwdVars, raceVars, adapterVars, routeVars, fnVars>>

SpecReg == InitRegistry /\ [][NextRegistry]_vars

InitRaceSpec ==
    /\ FwdIdle /\ RaceIdle /\ AdapterIdle /\ RouteIdle /\ FnIdle
    /\ store \in RaceStores
    /\ uuids = 0
    /\ last = Op("none", None, NoData, "ok", <<>>, <<>>, FALSE)

NextRaceSpec == NextRace /\ UNCHANGED <<fwdVars, last, routeVars, fnVars, adapterVars>>

SpecRace == InitRaceSpec /\ [][NextRaceSpec]_vars

\* initialization from configured lists
InitInitSpec ==
    /\ FwdIdle /\ InitReg /\ RaceIdle /\ AdapterIdle /\ FnIdle
    /\ routes = <<>>
    /\ openai_routes = <<>>
    /\ premium_user \in BOOLEAN
    /\ init_last = <<>>

NextInitSpec ==
    /\ initialize_pass_through_endpoints
    /\ UNCHANGED <<fwdVars, regVars, raceVars, adapterVars, fnVars>>

SpecInit == InitInitSpec /\ [][NextInitSpec]_vars

\* the headers of one response
InitHdrSpec ==
    /\ FwdIdle /\ InitReg /\ RaceIdle /\ AdapterIdle /\ RouteIdle
    /\ fn_in \in {<<in>> : in \in HeaderInputs}
    /\ fn_out = <<>>

NextHdrSpec == RelayHeaders /\ UNCHANGED <<fwdVars, regVars, raceVars, adapterVars, routeVars>>

SpecHdr == InitHdrSpec /\ [][NextHdrSpec]_vars

\* the target URL of one request
InitUrlSpec ==
    /\ FwdIdle /\ InitReg /\ RaceIdle /\ AdapterIdle /\ RouteIdle
    /\ fn_in \in {<<in>> : in \in UrlInputs}
    /\ fn_out = <<>>

NextUrlSpec == EndpointFunc /\ UNCHANGED <<fwdVars, regVars, raceVars, adapterVars, routeVars>>

SpecUrl == InitUrlSpec /\ [][NextUrlSpec]_vars

\* the headers of one configured definition
InitEnvSpec ==
    /\ FwdIdle /\ InitReg /\ RaceIdle /\ AdapterIdle /\ RouteIdle
    /\ fn_in \in {<<in>> : in \in EnvInputs}
    /\ fn_out = <<>>

NextEnvSpec == SetEnvVariables /\ UNCHANGED <<fwdVars, regVars, raceVars, adapterVars, routeVars>>

SpecEnv == InitEnvSpec /\ [][NextEnvSpec]_vars

\* the kwargs of one request
InitKwargsSpec ==
    /\ FwdIdle /\ InitReg /\ RaceIdle /\ AdapterIdle /\ RouteIdle
    /\ fn_in \in {<<in>> : in \in KwargsInputs}
    /\ fn_out = <<>>

NextKwargsSpec == InitKwargs /\ UNCHANGED <<fwdVars, regVars, raceVars, adapterVars, routeVars>>

SpecKwargs == InitKwargsSpec /\ [][NextKwargsSpec]_vars

\* the adapter list while definitions are registered
InitAdapterSpec ==
    /\ FwdIdle /\ InitReg /\ RaceIdle /\ RouteIdle /\ FnIdle /\ AdapterIdle

NextAdapterSpec ==
    RegisterDefinition /\ UNCHANGED <<fwdVars, regVars, raceVars, routeVars, fnVars>>

SpecAdapters == InitAdapterSpec /\ [][NextAdapterSpec]_vars

\* the registry together with the route table
NextRoutesSpec ==
    \/ /\ init_last = <<>>
       /\ NextReg
       /\ UNCHANGED <<fwdVars, raceVars, adapterVars, routeVars, fnVars>>
    \/ /\ initialize_pass_through_endpoints_in_db
       /\ UNCHANGED <<fwdVars, regVars, raceVars, adapterVars, fnVars>>
    \/ /\ InitializeReturn
       /\ UNCHANGED <<fwdVars, regVars, raceVars, adapterVars, fnVars>>

SpecRoutes == InitRegistry /\ [][NextRoutesSpec]_vars

(***************************************************************************)
(* Properties of the forwarding engine (checked under Spec)                *)
(***************************************************************************)
Done == pc = "done"

IsError(o) == o.kind \in {"ProxyException", "Raised"}

\* C1: for every request, on every path (explicit stream, inferred stream, buffered,
\* GET, multipart, error) at most one upstream HTTP call is issued; nothing is sent
\* again after a failure.
AtMostOnceForwarding == Len(calls) <= 1

\* a request that failed after its upstream call and ended without a second call
AtMostOnceWitness ==
    /\ Done /\ Len(calls) = 1 /\ hookCalls = 1
    /\ exc # <<>> /\ exc[1].text = "connection failed"

\* C2: a response classified as streaming (stream=true, or text/event-stream) with an
\* error status ends in a client-visible error carrying the upstream status code; no
\* StreamingResponse is created and no chunk is relayed.
StreamingStatusGate ==
    (Done /\ resp # <<>> /\ (req.stream \/ is_streaming_response(resp[1]))
          /\ resp[1].status_code >= 400)
    => /\ outcome[1].kind = "ProxyException"
       /\ outcome[1].code = resp[1].status_code
       /\ chunks = 0

\* C3: the pre_call hook runs before the upstream client is obtained and before any
\* request is sent; if it raises, no upstream call is made for the request and the
\* request ends in an error.
PreCallHardStop ==
    /\ pc \in {"start", "read_body", "pre_call"} => calls = <<>> /\ ~kwargsSet
    /\ preCallRaised => calls = <<>> /\ resp = <<>> /\ ~kwargsSet /\ successTasks = 0
    /\ preCallRaised /\ Done => outcome # <<>> /\ IsError(outcome[1])

\* a request rejected by the pre_call hook that has ended
PreCallHardStopWitness ==
    /\ preCallRaised /\ Done /\ calls = <<>>
    /\ outcome[1].kind = "ProxyException" /\ outcome[1].code = 403

\* C4: when a forwarding error occurs and post_call_failure_hook itself raises, the
\* error that reaches the client is still the ProxyException built from the original
\* forwarding error.
FailureHookNeverMasks ==
    (Done /\ exc # <<>>) => outcome[1] = ProxyExceptionOf(exc[1])

\* C5: every error raised on the forwarding path is reported to the failure hook
\* exactly once and then leaves as a ProxyException carrying message/type/param/code,
\* the code being 500 unless the original exception carries a status_code; no other
\* exception shape leaves the handler.
UniformErrorShape ==
    /\ (Done /\ exc # <<>>) =>
           /\ hookCalls = 1
           /\ outcome[1].kind = "ProxyException"
           /\ outcome[1].code = GetAttr(exc[1].status_code, 500)
    /\ Done => outcome[1].kind \in {"Response", "StreamingResponse", "ProxyException"}
    /\ exc = <<>> => hookCalls = 0

\* C6: a non-streaming upstream response with a non-2xx status gives the client an
\* error whose code is the upstream status code and whose detail is the upstream body;
\* no Response is returned and the success handler is not dispatched.
NonStreamingErrorMapping ==
    (Done /\ resp # <<>> /\ ~req.stream /\ ~is_streaming_response(resp[1])
          /\ resp[1].status_code \notin 200..299)
    => /\ outcome[1].kind = "ProxyException"
       /\ outcome[1].code = resp[1].status_code
       /\ outcome[1].message = resp[1].text
       /\ successTasks = 0

\* C7: for an inbound GET, on every dispatch path (stream=true included), the
\* outbound request has method GET and carries no JSON body.
GetSemantics ==
    \A i \in DOMAIN calls :
        req.method = "GET" => calls[i].method = "GET" /\ ~calls[i].json

(***************************************************************************)
(* Properties of the endpoint registry (checked under SpecReg)             *)
(***************************************************************************)
Succeeded(op) == last.op = op /\ last.status = "ok"

\* C8: after every update(endpoint_id, data) that succeeds, also when data carries a
\* non-null id different from endpoint_id, the stored definition at that position
\* still has id endpoint_id.
IdImmutable ==
    Succeeded("update") =>
        store[1][endpoint_index(last.before[1], last.id)].id = last.id

\* C9: update(id, partial) sets, in the stored definition with that id, exactly the
\* fields that are non-null in partial; every null field keeps its previous value,
\* every other definition is unchanged, and the length of the list and the position
\* of the updated definition are unchanged.
PartialUpdate ==
    Succeeded("update") =>
        LET old == last.before[1]
            new == store[1]
            idx == endpoint_index(old, last.id)
        IN /\ idx \in DOMAIN old
           /\ old[idx].id = last.id
           /\ Len(new) = Len(old)
           /\ \A j \in DOMAIN old : j # idx => new[j] = old[j]
           /\ \A f \in DOMAIN last.data :
                  new[idx][f] = IF last.data[f] # None THEN last.data[f] ELSE old[idx][f]
           /\ last.result = <<new[idx]>>

\* an update of the second of three definitions that sets path and leaves target,
\* which the partial object does not give, as it was
PartialUpdateWitness ==
    /\ Succeeded("update")
    /\ Len(last.before[1]) = 3
    /\ endpoint_index(last.before[1], last.id) = 2
    /\ last.data.target = None /\ last.data.id = None
    /\ last.before[1][2].target # None
    /\ last.data.path # last.before[1][2].path
    /\ store[1][2].path = last.data.path
    /\ store[1][2].target = last.before[1][2].target

\* C10: after create(def) returns d, get(d.id) returns exactly one definition, equal
\* to def in every field except that id is the generated one when def had none.
CreateGetRoundTrip ==
    Succeeded("create") =>
        LET d == last.result[1]
            expected == IF last.data.id = None
                        THEN [last.data EXCEPT !.id = d.id]
                        ELSE last.data
        IN /\ d.id # None
           /\ get_pass_through_endpoints_from_db(store, d.id, TRUE) = <<expected>>

\* the indices of the definitions of list l that have id i
WithId(l, i) == {k \in DOMAIN l : l[k].id = i}

\* C11: delete(id) on a registry holding a definition with that id removes it,
\* persists the shortened list and returns the removed definition; get(id) then
\* returns no definition, and the other definitions keep their relative order.
DeleteRemoves ==
    Succeeded("delete") =>
        LET old == last.before[1]
            idx == CHOOSE k \in WithId(old, last.id) : \A j \in WithId(old, last.id) : k <= j
        IN /\ last.result = <<old[idx]>>
           /\ store = <<SubSeq(old, 1, idx - 1) \o SubSeq(old, idx + 1, Len(old))>>
           /\ get_pass_through_endpoints_from_db(store, last.id, TRUE) = <<>>

\* C12: update(id, ...) or delete(id) with an id that matches no stored definition, or
\* with an absent list, ends in a 4xx error and writes nothing: the stored list is the
\* same before and after.
NotFoundNoChange ==
    (last.op \in {"update", "delete"}
        /\ (last.before = <<>> \/ WithId(last.before[1], last.id) = {}))
    => /\ last.status = IF last.op = "update" THEN "404" ELSE "400"
       /\ ~last.wrote
       /\ last.result = <<>>
       /\ store = last.before

\* a delete of an id that is not among the two stored definitions
NotFoundWitness ==
    /\ last.op = "delete" /\ last.status = "400"
    /\ last.before # <<>> /\ Len(last.before[1]) = 2
    /\ WithId(last.before[1], last.id) = {}
    /\ store = last.before

\* C13: after create(def) the persisted list is the list that was in the store before
\* the call with exactly one new definition appended; nothing stored before is removed
\* or altered, also when the read of the current list fails.
CreateOnlyAppends ==
    Succeeded("create") =>
        store = <<(IF last.before = <<>> THEN <<>> ELSE last.before[1]) \o last.result>>

(***************************************************************************)
(* Properties of concurrent management operations (checked under SpecRace) *)
(***************************************************************************)
\* both callers read the store before either wrote, and both have written
Raced == Len(writes) = 2 /\ \A t \in Tasks : tasks[t].readAt = 0

\* C14: when two mutating operations both read the list before either writes, the
\* stored list is the one written last, computed from the list both read, and the
\* first writer's change is lost (of two creates only one definition is added, and the
\* id the first writer created is not stored); no lock prevents this interleaving.
LastWriterWins ==
    Raced =>
        LET first == tasks[writes[1]]
            second == tasks[writes[2]]
        IN /\ first.seen = second.seen
           /\ store = <<second.value>>
           /\ (first.op = "create" /\ second.op = "create") =>
                  /\ Len(store[1]) = 1 + (IF second.seen = <<>> THEN 0 ELSE Len(second.seen[1]))
                  /\ (first.id # second.id
                          /\ (first.seen = <<>> \/ WithId(first.seen[1], first.id) = {}))
                      => WithId(store[1], first.id) = {}

\* two creates that raced: the definition created by the first writer is not stored
LastWriterWinsWitness ==
    /\ Raced
    /\ tasks[writes[1]].op = "create" /\ tasks[writes[2]].op = "create"
    /\ tasks[writes[1]].id # tasks[writes[2]].id
    /\ tasks[writes[1]].seen # <<>> /\ Len(tasks[writes[1]].seen[1]) = 1
    /\ WithId(store[1], tasks[writes[1]].id) = {}
    /\ Len(store[1]) = 2

(***************************************************************************)
(* Properties of the route table (checked under SpecRoutes and SpecInit)   *)
(***************************************************************************)
\* the stored definitions
Stored == IF store = <<>> THEN <<>> ELSE store[1]

\* C15: after a successful create of a definition with a target its path is served,
\* and after a successful delete the deleted definition's path is no longer served
\* unless another stored definition still has it.
RoutesFollowRegistry ==
    /\ (Succeeded("create") /\ last.result[1].target # None)
           => Served(last.result[1].path)
    /\ (Succeeded("delete")
            /\ \A k \in DOMAIN Stored : Stored[k].path # last.result[1].path)
           => ~Served(last.result[1].path)

\* definition e passes the checks of the loop
WellFormed(e) == e.path # None /\ (e.auth => premium_user)

\* the routes one well-formed definition with a target gets
RoutesOf(e) ==
    IF WellFormed(e) /\ e.target # None
    THEN IF e.include_subpath
         THEN add_subpath_route(add_exact_path_route(<<>>, e), e)
         ELSE add_exact_path_route(<<>>, e)
    ELSE <<>>

RECURSIVE AllRoutesOf(_)
AllRoutesOf(l) ==
    IF l = <<>> THEN <<>> ELSE RoutesOf(Head(l)) \o AllRoutesOf(Tail(l))

\* C16: the route table a request can see is the complete table before an
\* initialization or the complete table after it: the old routes followed by every
\* route of every definition of the list, never only some of them.
RouteTableAtomic ==
    init_last # <<>> =>
        \/ routes = init_last[1].routes
        \/ routes = init_last[1].routes \o AllRoutesOf(init_last[1].list)

\* C17: after initialize_pass_through_endpoints(list), every well-formed definition of
\* the list that has a target has its exact route installed, whatever the other
\* definitions of the list are.
ConfigErrorsIsolated ==
    init_last # <<>> =>
        \A i \in DOMAIN init_last[1].list :
            LET e == init_last[1].list[i] IN
            (WellFormed(e) /\ e.target # None) =>
                \E k \in DOMAIN routes :
                    /\ k > Len(init_last[1].routes)
                    /\ routes[k] = add_exact_path_route(<<>>, e)[1]

\* C18: initializing a list of well-formed definitions that all lack a target raises
\* no error and changes neither the route table nor the authenticated routes.
TargetAbsentNoOp ==
    (init_last # <<>>
        /\ \A i \in DOMAIN init_last[1].list :
               WellFormed(init_last[1].list[i]) /\ init_last[1].list[i].target = None)
    => /\ init_last[1].error = NoError
       /\ routes = init_last[1].routes
       /\ openai_routes = init_last[1].openai_routes

(***************************************************************************)
(* Properties of the relayed headers (checked under SpecHdr)               *)
(***************************************************************************)
\* C19: the relayed headers contain no transfer-encoding and no content-encoding
\* header in any letter case, contain every other upstream header, contain the
\* call-id header with the call id on the streaming and on the buffered path, and
\* contain every custom header with its custom value.
HeaderFiltering ==
    fn_out # <<>> =>
        LET in == fn_in[1]
            out == fn_out[1]
            custom == IF in.path = "stream" THEN <<>> ELSE in.others
        IN /\ \A k \in DOMAIN out : lower(k) \notin excluded_headers
           /\ \A k \in DOMAIN in.headers :
                  lower(k) \notin excluded_headers =>
                      /\ k \in DOMAIN out
                      /\ (k \notin DOMAIN custom \cup {"x-litellm-call-id"})
                             => out[k] = in.headers[k]
           /\ "x-litellm-call-id" \in DOMAIN out
           /\ out["x-litellm-call-id"] = LitellmCallId
           /\ \A k \in DOMAIN custom : k \in DOMAIN out /\ out[k] = custom[k]

\* a buffered response whose upstream sent both framing headers in mixed case, a
\* content type and a header that a custom header overrides
HeaderFilteringWitness ==
    /\ fn_out # <<>>
    /\ fn_in[1].path = "buffered"
    /\ {"Transfer-Encoding", "CONTENT-ENCODING", "content-type", "x-litellm-key-spend"}
           \subseteq DOMAIN fn_in[1].headers
    /\ DOMAIN fn_in[1].others = {"x-litellm-key-spend"}
    /\ DOMAIN fn_out[1] = {"content-type", "x-litellm-key-spend", "x-litellm-call-id"}
    /\ fn_out[1]["x-litellm-key-spend"] = "custom"

(***************************************************************************)
(* Properties of the target URL (checked under SpecUrl)                    *)
(***************************************************************************)
\* a string without one trailing slash, and without one leading slash
StripTrailing1(str) == IF endswith_slash(str) THEN SubSeq(str, 1, Len(str) - 1) ELSE str
StripLeading1(str) == IF startswith_slash(str) THEN Tail(str) ELSE str

\* the number of slashes a string ends with
RECURSIVE TrailingSlashes(_)
TrailingSlashes(str) ==
    IF endswith_slash(str) THEN 1 + TrailingSlashes(SubSeq(str, 1, Len(str) - 1)) ELSE 0

\* C20: the target of a request is the base target unchanged on the exact route and
\* when the subpath is empty; on the wildcard route with a subpath and a base target
\* that has at most one trailing slash it is the base target without its trailing
\* slash, one slash, and the subpath without one leading slash.
SubpathConstruction ==
    fn_out # <<>> =>
        LET in == fn_in[1]
            out == fn_out[1]
        IN /\ (in.route = "exact" \/ in.subpath = <<>>) => out = in.target
           /\ (in.route = "wildcard" /\ in.subpath # <<>>
                   /\ TrailingSlashes(in.target) <= 1)
              => out = StripTrailing1(in.target) \o <<"/">> \o StripLeading1(in.subpath)

\* the wildcard route joined base "a/" and subpath "/a" to "a/a"
SubpathConstructionWitness ==
    /\ fn_out # <<>>
    /\ fn_in[1].route = "wildcard"
    /\ fn_in[1].target = <<"a", "/">>
    /\ fn_in[1].subpath = <<"/", "a">>
    /\ fn_out[1] = <<"a", "/", "a">>

(***************************************************************************)
(* Properties of secret substitution (checked under SpecEnv)               *)
(***************************************************************************)
\* a configured value with its reference resolved, as configured if it does not resolve
Resolved(value) ==
    IF get_secret_str(value) = <<>> THEN value ELSE get_secret_str(value)[1]

\* C21: for every configured header map set_env_variables_in_header returns normally;
\* a value that is one resolvable secret reference becomes the secret, a value with
\* an unresolvable reference stays as configured, and when a reserved key is present
\* no reserved key is in the result and Authorization is "Basic " followed by the
\* base64 of public:secret.
SecretSubstitution ==
    fn_out # <<>> =>
        LET h == fn_in[1].custom_headers
            out == fn_out[1]
            reserved == DOMAIN h \cap ReservedKeys
        IN /\ out.error = NoError
           /\ \A k \in DOMAIN h \ ReservedKeys :
                  (k = "Authorization" => reserved = {}) =>
                      /\ h[k] = <<"os.environ/A">> => out.headers[k] = <<"secret-A">>
                      /\ h[k] = <<"os.environ/B">> => out.headers[k] = h[k]
           /\ reserved # {} =>
                  /\ DOMAIN out.headers \cap ReservedKeys = {}
                  /\ "Authorization" \in DOMAIN out.headers
                  /\ out.headers["Authorization"] =
                         basic_auth(Resolved(h["LANGFUSE_PUBLIC_KEY"]),
                                    Resolved(h["LANGFUSE_SECRET_KEY"]))

(***************************************************************************)
(* Properties of the success telemetry (checked under Spec)                *)
(***************************************************************************)
\* the upstream answered a request that is not a stream with a buffered 2xx response
Buffered2xx ==
    /\ resp # <<>> /\ ~req.stream /\ ~is_streaming_response(resp[1])
    /\ ~raise_for_status(resp[1]) /\ resp[1].status_code < 300

TelemetryExclusive ==
    (~req.stream /\ (resp = <<>> \/ ~is_streaming_response(resp[1])))
        => ~(successTasks >= 1 /\ hookCalls >= 1)

(***************************************************************************)
(* Properties of the ids of the registry (checked under SpecReg)           *)
(***************************************************************************)
\* the ids str(uuid.uuid4()) has produced so far
Generated == {Uuid(n) : n \in 1..uuids}

\* C23: a create whose input has no id stores a generated id that no definition stored
\* before has, and no two stored definitions share a generated id.
IdStability ==
    /\ (Succeeded("create") /\ last.data.id = None) =>
           /\ last.result[1].id \in Generated
           /\ last.before # <<>> => WithId(last.before[1], last.result[1].id) = {}
    /\ \A i, j \in DOMAIN Stored :
           (Stored[i].id = Stored[j].id /\ Stored[i].id \in Generated) => i = j

\* the second create without an id, into a list that holds the first generated id
IdStabilityWitness ==
    /\ Succeeded("create") /\ last.data.id = None
    /\ last.before # <<>> /\ Len(last.before[1]) = 2
    /\ WithId(last.before[1], Uuid(1)) # {}
    /\ last.result[1].id = Uuid(2)

\* C24: no two definitions of the stored list have the same id.
RegistryIdsUnique ==
    \A i, j \in DOMAIN Stored : Stored[i].id = Stored[j].id => i = j

(***************************************************************************)
(* Properties of the control fields (checked under SpecKwargs)             *)
(***************************************************************************)
\* the dict stored under key of the body, the empty dict if there is none
Nested(body, key) == IF key \in DOMAIN body THEN body[key] ELSE <<>>

AdaptersPersist ==
    \A k \in DOMAIN handlers :
        handlers[k].adapter_id # None =>
            \E a \in DOMAIN adapters : adapters[a].id = handlers[k].adapter_id

====
